---- MODULE Spec2Model ----
(***************************************************************************)
(* Model of manifest_updater (src/main.py).                                *)
(*                                                                         *)
(* A line of text is a sequence of lexical tokens; a file's content is the *)
(* sequence of its lines as readlines()/FileInput deliver them, each line  *)
(* ending in the token "\n".  The file system maps paths to contents.      *)
(*                                                                         *)
(* SpecB: process_web_platform_manifests (the --wpt mode) on one file.     *)
(* SpecA: process_manifest (the skip-if mode) on one file.                 *)
(***************************************************************************)
EXTENDS Integers, Sequences, FiniteSets, TLC

VARIABLES
    pc,                         \* position in the function being run
    fs,                         \* file system: path -> sequence of lines
    regex,                      \* --regex argument (Dialect B)
    manifest_contents,          \* process_web_platform_manifests: readlines()
    updated_manifest_contents,  \* process_web_platform_manifests: local
    updated_manifest,           \* remove_dangling_statements: local
    previous_line,              \* remove_dangling_statements: local
    manifest_file,              \* process_manifest: lines FileInput iterates
    lineno                      \* lines consumed by the running for-loop

vars == <<pc, fs, regex, manifest_contents, updated_manifest_contents,
          updated_manifest, previous_line, manifest_file, lineno>>

\* ------------------------------------------------------------------ bounds
MaxLines == 4       \* lines in a Dialect B manifest
MaxBody == 5        \* segments after the prefix of a skip-if line
MaxFileLines == 2   \* lines in a Dialect A manifest

\* ------------------------------------------------------------ text helpers
None == "None"
NL == <<"\n">>

IsSpace(t) == t \in {" ", "\n"}

Last(s) == s[Len(s)]
Front(s) == SubSeq(s, 1, Len(s) - 1)

RECURSIVE Flatten(_)
Flatten(ss) == IF ss = <<>> THEN <<>> ELSE Head(ss) \o Flatten(Tail(ss))

\* str.startswith
StartsWith(s, p) == Len(s) >= Len(p) /\ SubSeq(s, 1, Len(p)) = p

\* re.search of a literal: p occurs somewhere in s
Search(p, s) ==
    \E i \in 1..(Len(s) - Len(p) + 1) : SubSeq(s, i, i + Len(p) - 1) = p

\* str.rstrip / str.lstrip / str.strip
RECURSIVE rstrip(_)
rstrip(s) ==
    IF s # <<>> /\ IsSpace(Last(s)) THEN rstrip(Front(s)) ELSE s

RECURSIVE lstrip(_)
lstrip(s) ==
    IF s # <<>> /\ IsSpace(Head(s)) THEN lstrip(Tail(s)) ELSE s

strip(s) == lstrip(rstrip(s))

\* ------------------------------------------------------------ file system
Put(f, p, c) == [q \in (DOMAIN f) \cup {p} |-> IF q = p THEN c ELSE f[q]]
Remove(f, p) == [q \in (DOMAIN f) \ {p} |-> f[q]]

\* A path is a sequence of components below root; a component is a
\* sequence of name parts (string concatenation appends a part).
wpt_file_name == <<"test.html", ".ini">>
WptPath == <<wpt_file_name>>

\* ------------------------------------------------------ Dialect B constants
WPT_IF == <<"if", " ">>
WPT_PREFS == <<"prefs:">>
WPT_MANIFEST_SUBCATEGORIES == {"expected:", "disabled:", "fuzzy:"}

\* length of a token made of upper-case letters only, else 0
UpperLen(t) == IF t = "FAIL" THEN 4 ELSE IF t = "OK" THEN 2 ELSE 0

\* -------------------------------------------------- Dialect B line helpers
line_is_clean_wpt_substatement(line) ==
    \E pattern \in WPT_MANIFEST_SUBCATEGORIES : Search(<<pattern, "\n">>, line)

line_is_if_statement(line) == Search(WPT_IF, line)

line_is_test_statement(line) ==
    LET s == strip(line)
    IN  s # <<>> /\ Head(s) = "[" /\ Last(s) = "]"

\* faulty variant: the marker before a test line is popped, no "\n" put back
CascadePopOnly(um, prev, line) ==
    IF prev # None /\ prev # <<>> /\ line_is_clean_wpt_substatement(prev)
    THEN IF line_is_test_statement(line)
         THEN Append(Front(um), line)
         ELSE IF line_is_clean_wpt_substatement(line)
              THEN Append(Front(um), line)
              ELSE Append(um, line)
    ELSE Append(um, line)

\* faulty variant: a marker before another marker is not popped
CascadeKeepMarkers(um, prev, line) ==
    IF prev # None /\ prev # <<>> /\ line_is_clean_wpt_substatement(prev)
    THEN IF line_is_test_statement(line)
         THEN Append(Append(Front(um), NL), line)
         ELSE Append(um, line)
    ELSE Append(um, line)

\* faulty variant: the test line after a popped marker is not appended
CascadeNoAppend(um, prev, line) ==
    IF prev # None /\ prev # <<>> /\ line_is_clean_wpt_substatement(prev)
    THEN IF line_is_test_statement(line)
         THEN Append(Front(um), NL)
         ELSE IF line_is_clean_wpt_substatement(line)
              THEN Append(Front(um), line)
              ELSE Append(um, line)
    ELSE Append(um, line)

\* the loop body of remove_dangling_statements: the new updated_manifest
CascadeBody(um, prev, line) ==
    IF prev # None /\ prev # <<>> /\ line_is_clean_wpt_substatement(prev)
    THEN IF line_is_test_statement(line)
         THEN Append(Append(Front(um), NL), line)
         ELSE IF line_is_clean_wpt_substatement(line)
              THEN Append(Front(um), line)
              ELSE Append(um, line)
    ELSE Append(um, line)

\* re.search(pattern + r'\s[A-Z]{3,}', line)
RECURSIVE UpperRun(_, _)
UpperRun(line, i) ==
    IF i <= Len(line) /\ UpperLen(line[i]) > 0
    THEN UpperLen(line[i]) + UpperRun(line, i + 1)
    ELSE 0

CatchallSearch(pattern, line) ==
    \E i \in 1..Len(line) :
        /\ line[i] = pattern
        /\ i + 1 <= Len(line)
        /\ IsSpace(line[i + 1])
        /\ UpperRun(line, i + 2) >= 3

check_if_empty_manifest(manifest) ==
    LET no_statements ==
            \A k \in 1..Len(manifest) : ~Search(WPT_IF, strip(manifest[k]))
        no_prefs ==
            \A k \in 1..Len(manifest) : ~Search(WPT_PREFS, strip(manifest[k]))
        no_catchall ==
            \A pattern \in WPT_MANIFEST_SUBCATEGORIES :
                \A k \in 1..Len(manifest) : CatchallSearch(pattern, manifest[k])
    IN  no_statements /\ no_prefs /\ no_catchall

\* check_one_newline_at_end on a list of at least two lines
check_one_newline_at_end(manifest) ==
    LET last_line == manifest[Len(manifest)]
        second_last_line == manifest[Len(manifest) - 1]
    IN  IF last_line = NL /\ second_last_line = NL
        THEN Front(manifest)
        ELSE IF last_line = NL /\ second_last_line # NL
             THEN manifest
             ELSE Append(manifest, NL)

\* the list comprehension of lines 86-89
RegexFilter(lines, re) == SelectSeq(lines, LAMBDA l : ~Search(re, l))

\* ---------------------------------------------------- Dialect B input space
TestLine == <<"[", "x", "]", "\n">>
ExpectedMarker == <<" ", "expected:", "\n">>
DisabledMarker == <<" ", "disabled:", "\n">>
IfLine == <<" ", " ", "if", " ", "x", ":", " ", "FAIL", "\n">>
CatchallLine == <<" ", "expected:", " ", "FAIL", "\n">>
PrefsLine == <<" ", "prefs:", " ", "x", "\n">>
CommentLine == <<"#", "x", "\n">>

WptLines == {TestLine, ExpectedMarker, DisabledMarker, IfLine, CatchallLine,
             PrefsLine, CommentLine, NL}

TerminatedManifests == UNION {[1..n -> WptLines] : n \in 0..MaxLines}

\* readlines(): only the last line of a file may lack its terminator
ChopNewline(m) == [m EXCEPT ![Len(m)] = Front(m[Len(m)])]

WptManifests ==
    TerminatedManifests \cup
    {ChopNewline(m) : m \in {t \in TerminatedManifests : t # <<>> /\ Last(t) # NL}}

Regexes == {<<"if", " ", "x">>, <<"zzz">>}

\* ------------------------------------------------------- Dialect B actions
InitB ==
    /\ pc = "wpt_start"
    /\ \E m \in WptManifests : fs = (WptPath :> m)
    /\ regex \in Regexes
    /\ manifest_contents = <<>>
    /\ updated_manifest_contents = <<>>
    /\ updated_manifest = <<>>
    /\ previous_line = None
    /\ manifest_file = <<>>
    /\ lineno = 0

\* lines 82-89: read the file, drop the lines the regex matches
B_ReadAndFilter ==
    /\ pc = "wpt_start"
    /\ manifest_contents' = fs[WptPath]
    /\ updated_manifest_contents' = RegexFilter(fs[WptPath], regex)
    /\ updated_manifest' = <<>>
    /\ previous_line' = None
    /\ lineno' = 0
    /\ pc' = "cascade"
    /\ UNCHANGED <<fs, regex, manifest_file>>

\* lines 133-154: one iteration of the loop of remove_dangling_statements
B_CascadeStep ==
    /\ pc = "cascade"
    /\ lineno < Len(updated_manifest_contents)
    /\ LET line == updated_manifest_contents[lineno + 1]
       IN  /\ updated_manifest' = CascadeBody(updated_manifest, previous_line, line)
           /\ previous_line' = line
    /\ lineno' = lineno + 1
    /\ UNCHANGED <<pc, fs, regex, manifest_contents, updated_manifest_contents,
                   manifest_file>>

\* lines 156 and 92: the loop is over, the result is returned
B_CascadeReturn ==
    /\ pc = "cascade"
    /\ lineno = Len(updated_manifest_contents)
    /\ updated_manifest_contents' = updated_manifest
    /\ pc' = "newline"
    /\ UNCHANGED <<fs, regex, manifest_contents, updated_manifest,
                   previous_line, manifest_file, lineno>>

\* lines 95, 178-188: manifest[-1] / manifest[-2] raise IndexError on a
\* list of fewer than two lines
B_Newline ==
    /\ pc = "newline"
    /\ IF Len(updated_manifest_contents) < 2
       THEN /\ pc' = "IndexError"
            /\ UNCHANGED updated_manifest_contents
       ELSE /\ pc' = "write"
            /\ updated_manifest_contents' =
                   check_one_newline_at_end(updated_manifest_contents)
    /\ UNCHANGED <<fs, regex, manifest_contents, updated_manifest,
                   previous_line, manifest_file, lineno>>

\* lines 99-104: overwrite the file, or remove it when it is empty
B_WriteOrRemove ==
    /\ pc = "write"
    /\ IF ~check_if_empty_manifest(updated_manifest_contents)
       THEN fs' = Put(fs, WptPath, updated_manifest_contents)
       ELSE fs' = Remove(fs, WptPath)
    /\ pc' = "wpt_done"
    /\ UNCHANGED <<regex, manifest_contents, updated_manifest_contents,
                   updated_manifest, previous_line, manifest_file, lineno>>

NextB ==
    \/ B_ReadAndFilter
    \/ B_CascadeStep
    \/ B_CascadeReturn
    \/ B_Newline
    \/ B_WriteOrRemove

SpecB == InitB /\ [][NextB]_vars

\* ------------------------------------------------------ Dialect A constants
\* "V" is the text android_version == '17'; "a" is any other text
SKIP_IF == <<"skip-if =", " ">>
OrJoiner == <<" ", "||", " ">>

\* ANDROID_VERSION.match(token): [(]?android_version == '17'[)]? at the start
ANDROID_VERSION_match(token) ==
    \/ Len(token) >= 1 /\ token[1] = "V"
    \/ Len(token) >= 2 /\ token[1] = "(" /\ token[2] = "V"

\* TOKEN_OR_SEPARATOR r"\s\|\|\s" matches at position i of s
SeparatorAt(s, i) ==
    /\ i + 2 <= Len(s)
    /\ IsSpace(s[i])
    /\ s[i + 1] = "||"
    /\ IsSpace(s[i + 2])

\* re.split(TOKEN_OR_SEPARATOR, s): leftmost, non-overlapping matches
RECURSIVE SplitFrom(_, _, _)
SplitFrom(s, start, i) ==
    IF i > Len(s) THEN <<SubSeq(s, start, Len(s))>>
    ELSE IF SeparatorAt(s, i)
         THEN <<SubSeq(s, start, i - 1)>> \o SplitFrom(s, i + 3, i + 3)
         ELSE SplitFrom(s, start, i + 1)

re_split(s) == SplitFrom(s, 1, 1)

\* sep.join(list)
RECURSIVE join(_, _)
join(sep, list) ==
    IF list = <<>> THEN <<>>
    ELSE IF Len(list) = 1 THEN list[1]
         ELSE list[1] \o sep \o join(sep, Tail(list))

\* faulty variant: the survivors are joined by "||" without the spaces
process_manifest_line_pipes_only(line) ==
    LET rest == SubSeq(line, Len(SKIP_IF) + 1, Len(line))
        tokens == re_split(rest)
        tokens_with_matching_versions_removed ==
            SelectSeq(tokens, LAMBDA token : ~ANDROID_VERSION_match(token))
    IN  IF tokens_with_matching_versions_removed # <<>>
        THEN SKIP_IF \o join(<<"||">>, tokens_with_matching_versions_removed)
        ELSE None

process_manifest_line(line) ==
    LET rest == SubSeq(line, Len(SKIP_IF) + 1, Len(line))
        tokens == re_split(rest)
        tokens_with_matching_versions_removed ==
            SelectSeq(tokens, LAMBDA token : ~ANDROID_VERSION_match(token))
    IN  IF tokens_with_matching_versions_removed # <<>>
        THEN SKIP_IF \o
             (IF Len(tokens_with_matching_versions_removed) > 1
              THEN join(OrJoiner, tokens_with_matching_versions_removed)
              ELSE join(<<>>, tokens_with_matching_versions_removed))
        ELSE None

\* lines 65-70: what one iteration of the loop writes to the file
WrittenFor(line) ==
    IF StartsWith(line, SKIP_IF)
    THEN LET output == process_manifest_line(rstrip(line))
         IN  IF output # None /\ output # <<>> THEN <<output \o NL>> ELSE <<>>
    ELSE <<rstrip(line) \o NL>>

\* paths of process_manifest
file_name == <<"mochitest", ".ini">>
ManifestPath == <<file_name>>
\* FileInput(..., backup='.bak') keeps the original as file_name + '.bak'
FileInputBackupPath == <<file_name \o <<".bak">>>>
\* os.path.join(root, file_name, '.bak')
JoinedBackupPath == <<file_name, <<".bak">>>>

\* ---------------------------------------------------- Dialect A input space
Segments == {<<"V">>, <<"(", "V", ")">>, <<"a">>, <<" ">>, <<"||">>, OrJoiner}

Bodies == {Flatten(ss) : ss \in UNION {[1..n -> Segments] : n \in 0..MaxBody}}

SkipIfLine(body) == SKIP_IF \o body \o NL

OtherLines == {<<"a", " ", "\n">>}

PlainManifests == UNION {[1..n -> OtherLines] : n \in 0..MaxFileLines}

\* m with its k-th line replaced by a skip-if line; k = 0 leaves m as it is
WithSkipIfLine(m, k, body) ==
    IF k = 0 THEN m ELSE [m EXCEPT ![k] = SkipIfLine(body)]

\* ------------------------------------------------------- Dialect A actions
InitA ==
    /\ pc = "skipif_start"
    /\ \E m \in PlainManifests, k \in 0..MaxFileLines, body \in Bodies :
          /\ k <= Len(m)
          /\ k = 0 => body = <<>>
          /\ fs = (ManifestPath :> WithSkipIfLine(m, k, body))
    /\ regex = None
    /\ manifest_contents = <<>>
    /\ updated_manifest_contents = <<>>
    /\ updated_manifest = <<>>
    /\ previous_line = None
    /\ manifest_file = <<>>
    /\ lineno = 0

\* line 63-64: FileInput(inplace=True, backup='.bak') moves the file to the
\* backup name and redirects stdout to a new, empty file of the old name
A_Open ==
    /\ pc = "skipif_start"
    /\ manifest_file' = fs[ManifestPath]
    /\ fs' = Put(Put(fs, FileInputBackupPath, fs[ManifestPath]), ManifestPath, <<>>)
    /\ lineno' = 0
    /\ pc' = "skipif_loop"
    /\ UNCHANGED <<regex, manifest_contents, updated_manifest_contents,
                   updated_manifest, previous_line>>

\* lines 64-70: one iteration of the loop
A_Line ==
    /\ pc = "skipif_loop"
    /\ lineno < Len(manifest_file)
    /\ fs' = Put(fs, ManifestPath,
                 fs[ManifestPath] \o WrittenFor(manifest_file[lineno + 1]))
    /\ lineno' = lineno + 1
    /\ UNCHANGED <<pc, regex, manifest_contents, updated_manifest_contents,
                   updated_manifest, previous_line, manifest_file>>

\* lines 72-78: re-read both files; drop the backup when nothing changed.
\* open() of a path that does not exist raises.
A_CompareWithBackup ==
    /\ pc = "skipif_loop"
    /\ lineno = Len(manifest_file)
    /\ IF JoinedBackupPath \notin DOMAIN fs
       THEN /\ pc' = "NotADirectoryError"
            /\ UNCHANGED fs
       ELSE LET new_file == fs[ManifestPath]
                original_file == fs[JoinedBackupPath]
            IN  /\ fs' = IF new_file = original_file
                         THEN Remove(fs, JoinedBackupPath)
                         ELSE fs
                /\ pc' = "skipif_done"
    /\ UNCHANGED <<regex, manifest_contents, updated_manifest_contents,
                   updated_manifest, previous_line, manifest_file, lineno>>

NextA ==
    \/ A_Open
    \/ A_Line
    \/ A_CompareWithBackup

SpecA == InitA /\ [][NextA]_vars

\* ------------------------------------------------------ Dialect A properties
SkipIfFinished == pc \in {"skipif_done", "NotADirectoryError"}

IsSkipIf(l) == StartsWith(l, SKIP_IF)

\* the clauses of a skip-if line, and those the pattern does not match
Clauses(line) == re_split(SubSeq(rstrip(line), Len(SKIP_IF) + 1, Len(rstrip(line))))
Survivors(line) == SelectSeq(Clauses(line), LAMBDA c : ~ANDROID_VERSION_match(c))

RECURSIVE WithOr(_)
WithOr(cs) ==
    IF Len(cs) = 1 THEN cs[1]
    ELSE cs[1] \o <<" ", "||", " ">> \o WithOr(Tail(cs))

\* the loop of process_manifest applied to a whole content
RECURSIVE RewriteLines(_)
RewriteLines(lines) ==
    IF lines = <<>> THEN <<>>
    ELSE WrittenFor(Head(lines)) \o RewriteLines(Tail(lines))

\* C2: once process_manifest is over, an unchanged file has no backup and a
\* changed file has a backup holding the original content.
C2_BackupRoundTrip ==
    SkipIfFinished =>
        /\ fs[ManifestPath] = manifest_file =>
              FileInputBackupPath \notin DOMAIN fs
        /\ fs[ManifestPath] # manifest_file =>
              /\ FileInputBackupPath \in DOMAIN fs
              /\ fs[FileInputBackupPath] = manifest_file

\* C3: process_manifest_line keeps the clauses the pattern does not match,
\* in order: none left gives None (nothing is written), one left gives the
\* prefix and that clause, two or more give the prefix and the clauses
\* joined by " || ".
C3_SurvivorsJoined ==
    /\ \A k \in 1..Len(manifest_file) :
          IsSkipIf(manifest_file[k]) =>
              LET S == Survivors(manifest_file[k])
                  r == process_manifest_line(rstrip(manifest_file[k]))
              IN  /\ S = <<>> <=> r = None
                  /\ Len(S) = 1 => r = SKIP_IF \o S[1]
                  /\ Len(S) >= 2 =>
                        /\ r = SKIP_IF \o WithOr(S)
                        /\ re_split(SubSeq(r, Len(SKIP_IF) + 1, Len(r))) = S
    /\ (pc = "skipif_loop" /\ lineno = 1 /\ IsSkipIf(manifest_file[1])) =>
          LET S == Survivors(manifest_file[1])
          IN  fs[ManifestPath] =
                  IF S = <<>> THEN <<>> ELSE <<SKIP_IF \o WithOr(S) \o NL>>

\* a line of three clauses lost one and kept two
C3_Witness ==
    /\ pc = "skipif_loop"
    /\ lineno = 1
    /\ IsSkipIf(manifest_file[1])
    /\ Len(Clauses(manifest_file[1])) = 3
    /\ Len(Survivors(manifest_file[1])) = 2
    /\ \A k \in 1..2 : Survivors(manifest_file[1])[k] # <<>>

\* C4: rewriting the rewritten content changes nothing, and no clause of a
\* surviving skip-if line matches the pattern.
C4_Idempotent ==
    SkipIfFinished =>
        /\ RewriteLines(fs[ManifestPath]) = fs[ManifestPath]
        /\ \A k \in 1..Len(fs[ManifestPath]) :
              IsSkipIf(fs[ManifestPath][k]) =>
                  Survivors(fs[ManifestPath][k]) = Clauses(fs[ManifestPath][k])

\* the output keeps every other line as it was, in place
RECURSIVE OthersKept(_, _)
OthersKept(out, in) ==
    IF in = <<>> THEN out = <<>>
    ELSE IF ~IsSkipIf(Head(in))
         THEN out # <<>> /\ Head(out) = Head(in) /\ OthersKept(Tail(out), Tail(in))
         ELSE \/ OthersKept(out, Tail(in))
              \/ out # <<>> /\ IsSkipIf(Head(out)) /\ OthersKept(Tail(out), Tail(in))

\* C9: every line that does not start with "skip-if = " is written back
\* character for character, at the same place among the surviving lines.
C9_OtherLinesUnchanged ==
    SkipIfFinished => OthersKept(fs[ManifestPath], manifest_file)

\* ------------------------------------------------------ Dialect B properties
Count(s, P(_)) == Len(SelectSeq(s, P))
Pairs(s, Q(_, _)) == Cardinality({k \in 1..(Len(s) - 1) : Q(s[k], s[k + 1])})

IsMarker(l) == line_is_clean_wpt_substatement(l)
IsTest(l) == line_is_test_statement(l)
IsBlank(l) == l = NL

\* a label alone on its line, as the specification words it
MarkerAlone(l) == \E lab \in WPT_MANIFEST_SUBCATEGORIES : strip(l) = <<lab>>

\* the argument remove_dangling_statements was called with
CascadeInput ==
    IF pc = "cascade" THEN updated_manifest_contents
    ELSE RegexFilter(manifest_contents, regex)

\* C1: a manifest whose processed lines hold no "if ", no "prefs:" and no
\* marker with an upper-case catch-all value is deleted, not rewritten.
C1_EmptyManifestDeleted ==
    (/\ pc = "wpt_done"
     /\ \A k \in 1..Len(updated_manifest_contents) :
            LET l == updated_manifest_contents[k]
            IN  /\ ~Search(WPT_IF, l)
                /\ ~Search(WPT_PREFS, l)
                /\ \A lab \in WPT_MANIFEST_SUBCATEGORIES : ~CatchallSearch(lab, l))
    => WptPath \notin DOMAIN fs

C6_CascadeLeavesNoDangling ==
    pc = "newline" =>
        LET in == CascadeInput
            out == updated_manifest
            Kept(a, b) == IsMarker(a) /\ ~IsTest(b) /\ ~IsMarker(b)
            Replaced(a, b) == IsMarker(a) /\ IsTest(b)
            Dropped(a, b) == IsMarker(a) /\ ~IsTest(b) /\ IsMarker(b)
        IN  /\ \A k \in 1..(Len(out) - 1) :
                  IsMarker(out[k]) => ~IsTest(out[k + 1]) /\ ~IsMarker(out[k + 1])
            /\ Count(out, IsBlank) = Count(in, IsBlank) + Pairs(in, Replaced)
            /\ Len(out) = Len(in) - Pairs(in, Dropped)
            /\ Count(out, IsMarker) =
                   Pairs(in, Kept)
                   + (IF in # <<>> /\ IsMarker(Last(in)) THEN 1 ELSE 0)

\* a run of two markers in front of a test line went through the cascade
C6_Witness ==
    /\ pc = "newline"
    /\ \E k \in 1..(Len(CascadeInput) - 2) :
          /\ IsMarker(CascadeInput[k])
          /\ IsMarker(CascadeInput[k + 1])
          /\ IsTest(CascadeInput[k + 2])

\* C7: check_one_newline_at_end on two or more lines: two or more trailing
\* "\n" lines leave exactly one; no trailing "\n" line gains exactly one;
\* exactly one trailing "\n" line is returned unchanged.
C7_OneNewlineAtEnd ==
    pc = "write" =>
        LET in == updated_manifest
            out == updated_manifest_contents
            n == Len(in)
        IN  /\ (in[n] = NL /\ in[n - 1] = NL) =>
                  /\ Last(out) = NL
                  /\ Len(out) >= 2 => out[Len(out) - 1] # NL
            /\ in[n] # NL => out = Append(in, NL)
            /\ (in[n] = NL /\ in[n - 1] # NL) => out = in

\* C8: a manifest of fewer than two lines reaching the newline normalizer
\* does not end the run in an error.
C8_ShortManifestNoError ==
    ~(pc = "IndexError" /\ Len(updated_manifest_contents) < 2)

\* the output is the input with some markers deleted or turned into "\n"
RECURSIVE Derived(_, _)
Derived(out, in) ==
    IF in = <<>> THEN out = <<>>
    ELSE \/ out # <<>> /\ Head(out) = Head(in) /\ Derived(Tail(out), Tail(in))
         \/ IsMarker(Head(in)) /\ Derived(out, Tail(in))
         \/ IsMarker(Head(in)) /\ out # <<>> /\ Head(out) = NL
                /\ Derived(Tail(out), Tail(in))

\* C10: at every point of the single pass, the output so far is the input
\* read so far with some marker lines deleted or replaced by "\n" and
\* nothing else changed, and its last line is the line just read (so a pop
\* removes exactly the line appended in the previous step).
C10_SinglePassOrderPreserving ==
    pc \in {"cascade", "newline"} =>
        /\ Derived(updated_manifest, SubSeq(CascadeInput, 1, lineno))
        /\ lineno > 0 =>
              /\ updated_manifest # <<>>
              /\ Last(updated_manifest) = CascadeInput[lineno]
              /\ previous_line = CascadeInput[lineno]

\* the pass has both deleted a marker and replaced one by "\n"
C10_Witness ==
    /\ pc = "cascade"
    /\ lineno = Len(CascadeInput)
    /\ Len(updated_manifest) < lineno
    /\ Count(updated_manifest, IsBlank) > Count(CascadeInput, IsBlank)

====
